---- MODULE Spec2Model ----
(***************************************************************************)
(* A model of hat-py-sdk: the API-token state machine of                   *)
(* hat/aioclient.py (owner token, application token, their HTTP requests   *)
(* and auth strategies, run by cooperative tasks), the request             *)
(* orchestrator of hat/client.py, the record codec of hat/model.py and the *)
(* save fallback of AsyncActiveHatModel.                                   *)
(*                                                                         *)
(* hat/base.py, hat/urls.py, hat/utils.py, hat/errors.py and hat/tokens.py *)
(* are not part of the sources at hand; what the model needs of them is    *)
(* taken from the written specification and marked so in MODEL_MAP.json.   *)
(***************************************************************************)
EXTENDS Integers, Sequences, FiniteSets, TLC

(***************************************************************************)
(* Bounds of the model.                                                    *)
(***************************************************************************)
\* The wall clock runs from 0 to MaxTime.
MaxTime == 3
\* Lifetime the server gives a token it issues (exp = issue time + Ttl).
Ttl == 2
\* Depth of the await chain at which the interpreter raises RecursionError
\* (the interpreter's recursion limit, scaled down to the model's frames).
MaxDepth == 12
\* Calls a caller makes, one after the other, in one run.
MaxCalls == 2

(***************************************************************************)
(* Part I: the token state machine (hat/aioclient.py)                      *)
(***************************************************************************)
Callers == {"c1", "c2"}
NoCaller == "nobody"
Tokens == {"owner", "app"}

\* Python's None, one per type of attribute.
NoneStr == "None"
NoTime == -1
NoDomain == <<>>
NoTok == [iss |-> NoneStr, exp |-> NoTime, good |-> FALSE, sub |-> NoneStr]
NoClaims == [iss |-> NoneStr, exp |-> NoTime, sub |-> NoneStr]
NoUrl == [kind |-> NoneStr, host |-> NoDomain, sub |-> NoneStr]
NoHdr == [cred |-> FALSE, token |-> NoTok]
NoReq == [url |-> NoUrl, hdr |-> NoHdr]

\* The issuer the server writes into every token, and the key it signs with.
Issuer == "alice.hubofallthings.net"
ServerKey == "PEM"

VARIABLES
    \* AsyncApiToken fields, per token object
    value,      \* _value: the raw token, or NoTok
    decoded,    \* _decoded: the claims, or NoClaims
    expires,    \* _expires: the expiration instant, or NoTime
    pk,         \* _pk: the public key, or NoneStr
    domain,     \* _domain: the API domain, or NoDomain
    url,        \* _url: the token URL (AsyncAppToken: NoUrl until computed)
    \* the environment
    now,        \* the wall clock
    net,        \* per caller: the request in flight, or NoReq
    \* the cooperative tasks
    stack,      \* per caller: the chain of awaiting coroutine frames
    ret,        \* per caller: the value the last finished coroutine returned
    cur,        \* the task the event loop is running, or NoCaller
    call,       \* per caller: the call in progress or last completed
    res,        \* per caller: the outcome of the last completed call
    \* history, per caller and call
    pre,        \* the call's token as it was when the call began
    gets,       \* GETs this call sent to its token's token URL
    solo,       \* no other caller was active during this call
    fetched,    \* the last raw token this call got from its token's URL
    errTok,     \* the token object whose coroutine raised
    ncalls,     \* calls started so far
    events,     \* per caller: what the last answered request() called, in order
    \* HatClient (Part II)
    cns,        \* HatClient._namespace: a segment, or NoneStr
    cdomain,    \* whether the token has its domain (fetched on first use)
    cop,        \* the operation called: "get", "post", "put", "delete"
    cargs,      \* the records (or strings) it was called with
    cqueue,     \* the requests the operation has still to send
    csent,      \* the requests sent during the call, in order
    cgot,       \* the records decoded from the responses so far
    crecv,      \* the bodies of the responses received, in order
    cout,       \* "none" while running, "ok", or the error raised
    \* HatRecord codec (Part III)
    jphase,     \* "start", "text" (a JSON text is at hand), "parsed"
    jmodels,    \* the models given to to_json
    jtext,      \* the JSON text: to_json's result, or a response body
    jtypes,     \* the model types given to parse
    jout,       \* the models parse returned
    jerr,       \* the error parse raised, or NoneStr
    \* AsyncActiveHatModel._save (Part IV)
    spc,        \* "idle", "first", "post", "done"
    sargs,      \* the model saved and has_id
    sfirst,     \* what try_first did
    spost,      \* what the fallback post did
    sposted,    \* the models post was called with, one entry per call
    sres,       \* the outcome of _save
    \* AsyncHatClient.post (Part V)
    gphase,     \* "idle", "gathering", "returned", "raised"
    gkeys,      \* the endpoint groups of the call, in group order
    gtasks,     \* per group: the state of its POST and the records it decoded
    gresp,      \* per group: the records the server answered with
    gorder,     \* the groups in the order their responses completed
    gpeak,      \* the most POSTs that were in flight at once
    gout        \* the list post returned

tokVars == <<value, decoded, expires, pk, domain, url, now, net, stack, ret,
             cur, call, res, pre, gets, solo, fetched, errTok, ncalls,
             events>>
cliVars == <<cns, cdomain, cop, cargs, cqueue, csent, cgot, crecv, cout>>
codVars == <<jphase, jmodels, jtext, jtypes, jout, jerr>>
savVars == <<spc, sargs, sfirst, spost, sposted, sres>>
gatVars == <<gphase, gkeys, gtasks, gresp, gorder, gpeak, gout>>
vars == <<tokVars, cliVars, codVars, savVars, gatVars>>

\* A step of one part leaves the other parts alone.
TokOnly == UNCHANGED <<cliVars, codVars, savVars, gatVars>>
CliOnly == UNCHANGED <<tokVars, codVars, savVars, gatVars>>
CodOnly == UNCHANGED <<tokVars, cliVars, savVars, gatVars>>
SavOnly == UNCHANGED <<tokVars, cliVars, codVars, gatVars>>
GatOnly == UNCHANGED <<tokVars, cliVars, codVars, savVars>>


----------------------------------------------------------------------------
\* Values passed between coroutines.
RNone == [k |-> "none"]
RTok(t) == [k |-> "tok", tok |-> t]
RClaims(cl) == [k |-> "claims", claims |-> cl]
RStr(s) == [k |-> "str", str |-> s]
RUrl(u) == [k |-> "url", url |-> u]

NoRes == [kind |-> "none", ret |-> RNone, err |-> NoneStr]
Ok(v) == [kind |-> "ok", ret |-> v, err |-> NoneStr]
Err(e) == [kind |-> "err", ret |-> RNone, err |-> e]

NoCall == [op |-> NoneStr, tok |-> NoneStr, verify |-> FALSE]
Snapshot(t) == [value |-> value[t], decoded |-> decoded[t],
                expires |-> expires[t], domain |-> domain[t],
                expired |-> expires[t] # NoTime /\ expires[t] <= now]
NoSnapshot == [value |-> NoTok, decoded |-> NoClaims, expires |-> NoTime,
               domain |-> NoDomain,
               expired |-> FALSE]

\* A coroutine frame: the function, the token object it runs on, the place
\* it is at, and its locals.
Frame(fn, t) == [fn |-> fn, tok |-> t, pc |-> 0, verify |-> FALSE,
                 url |-> NoUrl, val |-> NoTok, log |-> <<>>]

Top(c) == stack[c][Len(stack[c])]
At(c, fn, pc) == /\ cur = c
                 /\ stack[c] # <<>>
                 /\ Top(c).fn = fn
                 /\ Top(c).pc = pc

----------------------------------------------------------------------------
\* urls.py
WithScheme(iss) == <<"https://", iss>>
UsernameOwnerToken == [kind |-> "token", host |-> WithScheme(Issuer), sub |-> "owner"]
DomainAppToken(d) == [kind |-> "token", host |-> d, sub |-> "app"]
DomainPk(d) == [kind |-> "pk", host |-> d, sub |-> NoneStr]

\* BaseApiToken.expired: the stored expiration instant has been reached. A
\* token with no stored expiration is not expired (the first fetch decodes
\* the token, through value(), before any expiration is stored).
Expired(t) == expires[t] # NoTime /\ expires[t] <= now

\* BaseApiToken._compute_expiration: the claims' expiration instant.
ComputeExpiration(cl) == cl.exp

\* JwtToken.decode: the claims of a raw token; with verify, the signature
\* must match the key and the token must not have expired.
JwtDecode(raw, key, verify) ==
    [ok |-> ~verify \/ (raw.good /\ key = ServerKey /\ raw.exp > now),
     claims |-> [iss |-> raw.iss, exp |-> raw.exp, sub |-> raw.sub]]

\* BaseCredentialAuth.headers: static headers made from the credential.
CredentialHeaders == [cred |-> TRUE, token |-> NoTok]
\* BaseTokenAuth.headers: the token under the token header.
TokenHeaders(raw) == [cred |-> FALSE, token |-> raw]

----------------------------------------------------------------------------
\* Steps of a task. Each constrains stack, ret, cur, res and errTok.

\* The running coroutine raises: nothing in the token code catches, so the
\* whole chain unwinds and the call ends with the error.
Raise(c, e, t) ==
    /\ stack' = [stack EXCEPT ![c] = <<>>]
    /\ ret' = [ret EXCEPT ![c] = RNone]
    /\ res' = [res EXCEPT ![c] = Err(e)]
    /\ errTok' = [errTok EXCEPT ![c] = t]
    /\ cur' = NoCaller

\* The top frame, changed to top2, awaits a new coroutine f.
Invoke(c, top2, f) ==
    IF Len(stack[c]) >= MaxDepth
    THEN Raise(c, "RecursionError", f.tok)
    ELSE /\ stack' = [stack EXCEPT ![c] =
                        Append([@ EXCEPT ![Len(@)] = top2], f)]
         /\ cur' = c
         /\ UNCHANGED <<ret, res, errTok>>

AtPc(c, n) == [Top(c) EXCEPT !.pc = n]

\* The top frame returns v to the frame awaiting it, or ends the call.
Return(c, v) ==
    IF Len(stack[c]) = 1
    THEN /\ stack' = [stack EXCEPT ![c] = <<>>]
         /\ ret' = [ret EXCEPT ![c] = RNone]
         /\ res' = [res EXCEPT ![c] = Ok(v)]
         /\ cur' = NoCaller
         /\ UNCHANGED errTok
    ELSE /\ stack' = [stack EXCEPT ![c] = SubSeq(@, 1, Len(@) - 1)]
         /\ ret' = [ret EXCEPT ![c] = v]
         /\ cur' = c
         /\ UNCHANGED <<res, errTok>>

histVars == <<call, pre, gets, solo, fetched, ncalls, events>>
fieldVars == <<value, decoded, expires, pk, domain, url>>

----------------------------------------------------------------------------
\* A caller starts value(), domain(), pk() or decode(verify) on a token.
Ops == {"value", "domain", "pk", "decode"}

Call(c, op, t, vf) ==
    /\ cur = NoCaller
    /\ stack[c] = <<>>
    /\ ncalls' = ncalls + 1
    /\ stack' = [stack EXCEPT ![c] = <<[Frame(op, t) EXCEPT !.verify = vf]>>]
    /\ cur' = c
    /\ ret' = [ret EXCEPT ![c] = RNone]
    /\ res' = [res EXCEPT ![c] = NoRes]
    /\ errTok' = [errTok EXCEPT ![c] = NoneStr]
    /\ call' = [call EXCEPT ![c] = [op |-> op, tok |-> t, verify |-> vf]]
    /\ pre' = [pre EXCEPT ![c] = Snapshot(t)]
    /\ gets' = [gets EXCEPT ![c] = 0]
    /\ fetched' = [fetched EXCEPT ![c] = NoTok]
    /\ solo' = [d \in Callers |->
                  IF d = c THEN \A e \in Callers \ {c} : stack[e] = <<>>
                  ELSE FALSE]
    /\ UNCHANGED <<fieldVars, now, net, events>>
    /\ TokOnly

\* value() without its guard: it fetches whatever the token holds.
ValueAlwaysFetch(c) ==
    /\ At(c, "value", 0)
    /\ Invoke(c, AtPc(c, 1), Frame("url", Top(c).tok))
    /\ UNCHANGED <<fieldVars, now, net, histVars>>
    /\ TokOnly

\* value, line 238: the guard; line 239: await self.url()
ValueCheck(c) ==
    /\ At(c, "value", 0)
    /\ LET t == Top(c).tok IN
       IF value[t] = NoTok \/ Expired(t)
       THEN Invoke(c, AtPc(c, 1), Frame("url", t))
       ELSE Return(c, RTok(value[t]))
    /\ UNCHANGED <<fieldVars, now, net, histVars>>
    /\ TokOnly

\* value, line 239: await self._get(url)
ValueGet(c) ==
    /\ At(c, "value", 1)
    /\ Invoke(c, AtPc(c, 2),
              [Frame("request", Top(c).tok) EXCEPT !.url = ret[c].url])
    /\ UNCHANGED <<fieldVars, now, net, histVars>>
    /\ TokOnly

\* value, line 240: await self.set_value(token)
ValueSet(c) ==
    /\ At(c, "value", 2)
    /\ Invoke(c, AtPc(c, 3),
              [Frame("set_value", Top(c).tok) EXCEPT !.val = ret[c].tok])
    /\ UNCHANGED <<fieldVars, now, net, histVars>>
    /\ TokOnly

\* value, line 241: return self._value
ValueReturn(c) ==
    /\ At(c, "value", 3)
    /\ Return(c, RTok(value[Top(c).tok]))
    /\ UNCHANGED <<fieldVars, now, net, histVars>>
    /\ TokOnly

\* AsyncCredentialOwnerToken.url, and AsyncAppToken.url up to its await
UrlCheck(c) ==
    /\ At(c, "url", 0)
    /\ LET t == Top(c).tok IN
       IF t = "app" /\ url[t] = NoUrl
       THEN Invoke(c, AtPc(c, 1), Frame("domain", t))
       ELSE Return(c, RUrl(url[t]))
    /\ UNCHANGED <<fieldVars, now, net, histVars>>
    /\ TokOnly

\* AsyncAppToken.url, line 298
UrlStore(c) ==
    /\ At(c, "url", 1)
    /\ url' = [url EXCEPT ![Top(c).tok] = DomainAppToken(ret[c].str)]
    /\ Return(c, RUrl(url'[Top(c).tok]))
    /\ UNCHANGED <<value, decoded, expires, pk, domain, now, net, histVars>>
    /\ TokOnly

\* set_value, line 244, and line 245 up to its await
SetValueAssign(c) ==
    /\ At(c, "set_value", 0)
    /\ value' = [value EXCEPT ![Top(c).tok] = Top(c).val]
    /\ Invoke(c, AtPc(c, 1), [Frame("decode", Top(c).tok) EXCEPT !.verify = TRUE])
    /\ UNCHANGED <<decoded, expires, pk, domain, url, now, net, histVars>>
    /\ TokOnly

\* set_value, lines 245-246
SetValueStore(c) ==
    /\ At(c, "set_value", 1)
    /\ decoded' = [decoded EXCEPT ![Top(c).tok] = ret[c].claims]
    /\ expires' = [expires EXCEPT ![Top(c).tok] = ComputeExpiration(ret[c].claims)]
    /\ Return(c, RNone)
    /\ UNCHANGED <<value, pk, domain, url, now, net, histVars>>
    /\ TokOnly

\* A domain() that does not keep what it computed: it decodes every time.
DomainAlwaysDecode(c) ==
    /\ At(c, "domain", 0)
    /\ Top(c).tok = "owner"
    /\ Invoke(c, AtPc(c, 1), Frame("decode", "owner"))
    /\ UNCHANGED <<fieldVars, now, net, histVars>>
    /\ TokOnly

\* AsyncApiToken.domain, lines 249-250
DomainCheck(c) ==
    /\ At(c, "domain", 0)
    /\ Top(c).tok = "owner"
    /\ LET t == Top(c).tok IN
       IF domain[t] = NoDomain
       THEN Invoke(c, AtPc(c, 1), Frame("decode", t))
       ELSE Return(c, RStr(domain[t]))
    /\ UNCHANGED <<fieldVars, now, net, histVars>>
    /\ TokOnly

\* AsyncApiToken.domain, lines 251-252
DomainStore(c) ==
    /\ At(c, "domain", 1)
    /\ domain' = [domain EXCEPT ![Top(c).tok] = WithScheme(ret[c].claims.iss)]
    /\ Return(c, RStr(domain'[Top(c).tok]))
    /\ UNCHANGED <<value, decoded, expires, pk, url, now, net, histVars>>
    /\ TokOnly

\* An application token computing its domain itself, as AsyncApiToken.domain
\* does, from its own decoded token.
AppDomainOwn(c) ==
    /\ At(c, "domain", 0)
    /\ Top(c).tok = "app"
    /\ Invoke(c, AtPc(c, 1), Frame("decode", "app"))
    /\ UNCHANGED <<fieldVars, now, net, histVars>>
    /\ TokOnly

\* AsyncAppToken.domain, line 294: await self._owner_token.domain()
AppDomain(c) ==
    /\ At(c, "domain", 0)
    /\ Top(c).tok = "app"
    /\ Invoke(c, AtPc(c, 2), Frame("domain", "owner"))
    /\ UNCHANGED <<fieldVars, now, net, histVars>>
    /\ TokOnly

\* AsyncAppToken.domain, line 294: return
AppDomainReturn(c) ==
    /\ At(c, "domain", 2)
    /\ Return(c, ret[c])
    /\ UNCHANGED <<fieldVars, now, net, histVars>>
    /\ TokOnly

\* decode, line 255: await self.value()
DecodeValue(c) ==
    /\ At(c, "decode", 0)
    /\ Invoke(c, AtPc(c, 1), Frame("value", Top(c).tok))
    /\ UNCHANGED <<fieldVars, now, net, histVars>>
    /\ TokOnly

\* decode, line 256, and line 257 when verify is false
DecodePk(c) ==
    /\ At(c, "decode", 1)
    /\ IF Top(c).verify
       THEN Invoke(c, [AtPc(c, 2) EXCEPT !.val = ret[c].tok],
                   Frame("pk", Top(c).tok))
       ELSE Return(c, RClaims(JwtDecode(ret[c].tok, NoneStr, FALSE).claims))
    /\ UNCHANGED <<fieldVars, now, net, histVars>>
    /\ TokOnly

\* decode, line 257 when verify is true
DecodeVerify(c) ==
    /\ At(c, "decode", 2)
    /\ LET r == JwtDecode(Top(c).val, ret[c].str, TRUE) IN
       IF r.ok THEN Return(c, RClaims(r.claims))
       ELSE Raise(c, "DecodeError", Top(c).tok)
    /\ UNCHANGED <<fieldVars, now, net, histVars>>
    /\ TokOnly

\* pk, lines 232-233: await self.domain()
PkCheck(c) ==
    /\ At(c, "pk", 0)
    /\ LET t == Top(c).tok IN
       IF pk[t] = NoneStr
       THEN Invoke(c, AtPc(c, 1), Frame("domain", t))
       ELSE Return(c, RStr(pk[t]))
    /\ UNCHANGED <<fieldVars, now, net, histVars>>
    /\ TokOnly

\* pk, lines 233-234: await self._get(url)
PkGet(c) ==
    /\ At(c, "pk", 1)
    /\ Invoke(c, AtPc(c, 2),
              [Frame("request", Top(c).tok) EXCEPT !.url = DomainPk(ret[c].str)])
    /\ UNCHANGED <<fieldVars, now, net, histVars>>
    /\ TokOnly

\* pk, lines 234-235
PkStore(c) ==
    /\ At(c, "pk", 2)
    /\ pk' = [pk EXCEPT ![Top(c).tok] = ret[c].str]
    /\ Return(c, RStr(pk'[Top(c).tok]))
    /\ UNCHANGED <<value, decoded, expires, domain, url, now, net, histVars>>
    /\ TokOnly

\* The request leaves (request lines 193-195, after the headers of line 192,
\* whose call is in log): the task is suspended until the response arrives.
Send(c, hdr, log) ==
    /\ net' = [net EXCEPT ![c] = [url |-> Top(c).url, hdr |-> hdr]]
    /\ stack' = [stack EXCEPT ![c] = [@ EXCEPT ![Len(@)] =
                    [AtPc(c, 2) EXCEPT !.log = Append(log, "request")]]]
    /\ cur' = NoCaller
    /\ gets' = [gets EXCEPT ![c] =
                  IF Top(c).url.kind = "token" /\ Top(c).url.sub = call[c].tok
                  THEN @ + 1 ELSE @]
    /\ UNCHANGED <<ret, res, errTok, call, pre, solo, fetched, ncalls, events>>

\* _get of an owner token (auth: AsyncCredentialAuth), request lines 191-195
RequestCredential(c) ==
    /\ At(c, "request", 0)
    /\ Top(c).tok = "owner"
    /\ Send(c, CredentialHeaders, <<"headers">>)
    /\ UNCHANGED <<fieldVars, now>>
    /\ TokOnly

\* _get of an application token whose auth reads the owner token's stored
\* raw value instead of awaiting its value().
RequestTokenStored(c) ==
    /\ At(c, "request", 0)
    /\ Top(c).tok = "app"
    /\ Send(c, TokenHeaders(value["owner"]), <<"headers">>)
    /\ UNCHANGED <<fieldVars, now>>
    /\ TokOnly

\* _get of an application token (auth: AsyncTokenAuth of the owner token),
\* request line 192 and AsyncTokenAuth.headers line 312: await the owner
\* token's value()
RequestTokenAuth(c) ==
    /\ At(c, "request", 0)
    /\ Top(c).tok = "app"
    /\ Invoke(c, [AtPc(c, 1) EXCEPT !.log = <<"headers">>],
              Frame("value", "owner"))
    /\ UNCHANGED <<fieldVars, now, net, histVars>>
    /\ TokOnly

\* request lines 192-195 with the token header computed
RequestToken(c) ==
    /\ At(c, "request", 1)
    /\ Send(c, TokenHeaders(ret[c].tok), Top(c).log)
    /\ UNCHANGED <<fieldVars, now>>
    /\ TokOnly

\* What the server answers to a request.
Bodies(req) ==
    IF req.url.kind = "pk" THEN {RStr(ServerKey)}
    ELSE {RTok([iss |-> Issuer, exp |-> now + Ttl, good |-> g, sub |-> req.url.sub]) :
            g \in BOOLEAN}

\* request with the auth's on_response called before raise_for_status, for
\* every response.
RespondOnResponseFirst(c, ok, revoke, body) ==
    /\ cur = NoCaller
    /\ stack[c] # <<>>
    /\ net[c] # NoReq
    /\ body \in Bodies(net[c])
    /\ net' = [net EXCEPT ![c] = NoReq]
    /\ IF revoke /\ ~net[c].hdr.cred
       THEN /\ value' = [value EXCEPT !["owner"] = NoTok]
            /\ decoded' = [decoded EXCEPT !["owner"] = NoClaims]
            /\ expires' = [expires EXCEPT !["owner"] = NoTime]
       ELSE UNCHANGED <<value, decoded, expires>>
    /\ IF ~ok
       THEN /\ Raise(c, "ResponseError", Top(c).tok)
            /\ events' = [events EXCEPT ![c] =
                            Top(c).log \o <<"on_response", "on_error">>]
            /\ UNCHANGED fetched
       ELSE /\ events' = [events EXCEPT ![c] =
                            Top(c).log \o <<"on_response", "on_success">>]
            /\ Return(c, body)
            /\ fetched' = [fetched EXCEPT ![c] =
                             IF body.k = "tok" /\ body.tok.sub = call[c].tok
                             THEN body.tok ELSE @]
    /\ UNCHANGED <<pk, domain, url, now, call, pre, gets, solo, ncalls>>
    /\ TokOnly

\* The response arrives and the task resumes: request lines 196-205 and
\* AsyncResponseHandler.on_success lines 117-121. A response that is not 2xx
\* raises (on_error); on a 2xx response the auth's on_response runs first:
\* AsyncTokenAuth.on_response clears the cached state of its token (the
\* owner token) when the response signals revocation.
Respond(c, ok, revoke, body) ==
    /\ cur = NoCaller
    /\ stack[c] # <<>>
    /\ net[c] # NoReq
    /\ body \in Bodies(net[c])
    /\ net' = [net EXCEPT ![c] = NoReq]
    /\ IF ~ok
       THEN /\ Raise(c, "ResponseError", Top(c).tok)
            /\ events' = [events EXCEPT ![c] = Append(Top(c).log, "on_error")]
            /\ UNCHANGED <<value, decoded, expires, fetched>>
       ELSE /\ IF revoke /\ ~net[c].hdr.cred
               THEN /\ value' = [value EXCEPT !["owner"] = NoTok]
                    /\ decoded' = [decoded EXCEPT !["owner"] = NoClaims]
                    /\ expires' = [expires EXCEPT !["owner"] = NoTime]
               ELSE UNCHANGED <<value, decoded, expires>>
            /\ events' = [events EXCEPT ![c] =
                            Top(c).log \o <<"on_response", "on_success">>]
            /\ Return(c, body)
            /\ fetched' = [fetched EXCEPT ![c] =
                             IF body.k = "tok" /\ body.tok.sub = call[c].tok
                             THEN body.tok ELSE @]
    /\ UNCHANGED <<pk, domain, url, now, call, pre, gets, solo, ncalls>>
    /\ TokOnly

\* Time passes while no task is running.
Tick ==
    /\ cur = NoCaller
    /\ now < MaxTime
    /\ now' = now + 1
    /\ UNCHANGED <<fieldVars, net, stack, ret, cur, call, res, histVars, errTok>>
    /\ TokOnly

\* The token objects as constructed (BaseApiToken.__init__, lines 270-272 and
\* 287-290), no task running.
TokInit ==
    /\ value = [t \in Tokens |-> NoTok]
    /\ decoded = [t \in Tokens |-> NoClaims]
    /\ expires = [t \in Tokens |-> NoTime]
    /\ pk = [t \in Tokens |-> NoneStr]
    /\ domain = [t \in Tokens |-> NoDomain]
    /\ url = [t \in Tokens |-> IF t = "owner" THEN UsernameOwnerToken ELSE NoUrl]
    /\ now = 0
    /\ net = [c \in Callers |-> NoReq]
    /\ stack = [c \in Callers |-> <<>>]
    /\ ret = [c \in Callers |-> RNone]
    /\ cur = NoCaller
    /\ call = [c \in Callers |-> NoCall]
    /\ res = [c \in Callers |-> NoRes]
    /\ pre = [c \in Callers |-> NoSnapshot]
    /\ gets = [c \in Callers |-> 0]
    /\ solo = [c \in Callers |-> FALSE]
    /\ fetched = [c \in Callers |-> NoTok]
    /\ errTok = [c \in Callers |-> NoneStr]
    /\ ncalls = 0
    /\ events = [c \in Callers |-> <<>>]

\* The steps of the coroutines every token runs.
TokenStep(c) ==
    \/ ValueCheck(c) \/ ValueGet(c) \/ ValueSet(c) \/ ValueReturn(c)
    \/ UrlCheck(c)
    \/ SetValueAssign(c) \/ SetValueStore(c)
    \/ DomainCheck(c) \/ DomainStore(c)
    \/ DecodeValue(c) \/ DecodePk(c) \/ DecodeVerify(c)
    \/ PkCheck(c) \/ PkGet(c) \/ PkStore(c)
    \/ RequestCredential(c)

\* The steps only an application token runs.
AppTokenStep(c) ==
    \/ UrlStore(c)
    \/ AppDomain(c) \/ AppDomainReturn(c)
    \/ RequestTokenAuth(c) \/ RequestToken(c)

\* One caller making calls one after the other, on either token.
SoloCaller == "c1"

SoloNext ==
    \/ \E op \in Ops, t \in Tokens, vf \in BOOLEAN :
          /\ ncalls < MaxCalls
          /\ (vf => op = "decode")
          /\ Call(SoloCaller, op, t, vf)
    \/ TokenStep(SoloCaller)
    \/ AppTokenStep(SoloCaller)
    \/ \E ok \in BOOLEAN, revoke \in BOOLEAN :
          \E body \in Bodies(net[SoloCaller]) : Respond(SoloCaller, ok, revoke, body)
    \/ Tick

\* The owner token as a first value() at time 0 leaves it when the server's
\* token verifies (SoloReachesValidOwner is that state, reached under
\* SpecSolo).
ValidToken == [iss |-> Issuer, exp |-> Ttl, good |-> TRUE, sub |-> "owner"]

ValidOwner ==
    /\ value["owner"] = ValidToken
    /\ decoded["owner"] = JwtDecode(ValidToken, ServerKey, FALSE).claims
    /\ expires["owner"] = Ttl
    /\ pk["owner"] = ServerKey
    /\ domain["owner"] = WithScheme(Issuer)

\* Two callers, each calling value() once on the owner token, which is unset
\* or holds a token fetched earlier.
RaceInit ==
    /\ value \in {[t \in Tokens |-> NoTok],
                  [t \in Tokens |-> IF t = "owner" THEN ValidToken ELSE NoTok]}
    /\ decoded = [t \in Tokens |->
                    IF value[t] = NoTok THEN NoClaims
                    ELSE JwtDecode(value[t], ServerKey, FALSE).claims]
    /\ expires = [t \in Tokens |-> ComputeExpiration(decoded[t])]
    /\ pk = [t \in Tokens |-> IF value[t] = NoTok THEN NoneStr ELSE ServerKey]
    /\ domain = [t \in Tokens |->
                   IF value[t] = NoTok THEN NoDomain ELSE WithScheme(Issuer)]
    /\ url = [t \in Tokens |-> IF t = "owner" THEN UsernameOwnerToken ELSE NoUrl]
    /\ now = 0
    /\ net = [c \in Callers |-> NoReq]
    /\ stack = [c \in Callers |-> <<>>]
    /\ ret = [c \in Callers |-> RNone]
    /\ cur = NoCaller
    /\ call = [c \in Callers |-> NoCall]
    /\ res = [c \in Callers |-> NoRes]
    /\ pre = [c \in Callers |-> NoSnapshot]
    /\ gets = [c \in Callers |-> 0]
    /\ solo = [c \in Callers |-> FALSE]
    /\ fetched = [c \in Callers |-> NoTok]
    /\ errTok = [c \in Callers |-> NoneStr]
    /\ ncalls = 0
    /\ events = [c \in Callers |-> <<>>]

RaceNext ==
    \/ \E c \in Callers :
          /\ call[c] = NoCall
          /\ Call(c, "value", "owner", FALSE)
    \/ \E c \in Callers : TokenStep(c)
    \/ \E c \in Callers, ok \in BOOLEAN :
          \E body \in Bodies(net[c]) : Respond(c, ok, FALSE, body)
    \/ Tick

(***************************************************************************)
(* Part II: the request orchestrator (hat/client.py)                       *)
(*                                                                         *)
(* A string is the sequence of its '/'-separated segments, so that a       *)
(* prefix "ns/" is a first segment "ns" followed by at least one more. No  *)
(* string has zero segments: <<>> is Python's None.                        *)
(***************************************************************************)
\* Records a call is given at most.
MaxRecs == 2

NoPath == <<>>
Namespace == "ns"
EndpointE == <<"e">>
EndpointF == <<"f">>
EndpointNsE == <<Namespace, "e">>
\* The endpoints of the model, as Python's string order sorts them.
EndpointOrder == <<EndpointE, EndpointF, EndpointNsE>>
Endpoints == {EndpointOrder[i] : i \in 1..Len(EndpointOrder)}
RecordIds == {<<"r1">>, <<"r2">>}
Payloads == {"a", "b"}

\* HatRecord (the envelope) and a bare string given in its place.
HatRecords == [bare : {FALSE}, str : {NoPath},
               endpoint : Endpoints \cup {NoPath},
               record_id : RecordIds \cup {NoPath},
               data : Payloads]
BareStrings(S) == [bare : {TRUE}, str : S, endpoint : {NoPath},
                   record_id : {NoPath}, data : {"a"}]

SeqsUpTo(S, n) == UNION {[1..k -> S] : k \in 0..n}

\* f"{namespace}": the namespace as the pattern and the URL spell it.
NsStr(ns) == ns

\* __init__, line 70, and pattern.match: the endpoint begins with "<ns>/".
Match(ns, e) == Len(e) >= 2 /\ e[1] = NsStr(ns)

\* pattern.split(endpoint)[-1], line 138: what follows the prefix.
SplitLast(ns, e) == IF Match(ns, e) THEN Tail(e) ELSE e

\* A require_endpoint that looks at the first record only.
RequireEndpointFirstOnly(items) ==
    items = <<>> \/ items[1].bare \/ items[1].endpoint # NoPath

\* require_endpoint, lines 33-37: no record has a null endpoint.
RequireEndpoint(items) ==
    \A i \in 1..Len(items) : items[i].bare \/ items[i].endpoint # NoPath

\* require_record_id, lines 40-44: no record has a null record id.
RequireRecordId(items) ==
    \A i \in 1..Len(items) : items[i].bare \/ items[i].record_id # NoPath

\* requires_namespace, lines 47-54
RequiresNamespace(ns) == ns # NoneStr

\* Python's order of the endpoint strings: the place of e in EndpointOrder
\* (0 for a null endpoint, which no operation sorts: its preparation raised).
Rank(e) == IF e \in Endpoints
           THEN CHOOSE i \in 1..Len(EndpointOrder) : EndpointOrder[i] = e
           ELSE 0

\* sorted(records, key=endpoint): a stable sort.
RECURSIVE SortedByEndpoint(_)
SortedByEndpoint(recs) ==
    IF recs = <<>> THEN <<>>
    ELSE LET m == CHOOSE i \in 1..Len(recs) :
                    \A j \in 1..Len(recs) :
                        \/ Rank(recs[i].endpoint) < Rank(recs[j].endpoint)
                        \/ Rank(recs[i].endpoint) = Rank(recs[j].endpoint) /\ i <= j
             rest == [k \in 1..(Len(recs) - 1) |->
                        IF k < m THEN recs[k] ELSE recs[k + 1]]
         IN  <<recs[m]>> \o SortedByEndpoint(rest)

\* itertools.groupby on the sorted records: the keys, one per run.
RECURSIVE GroupKeys(_)
GroupKeys(sorted) ==
    IF sorted = <<>> THEN <<>>
    ELSE IF Len(sorted) >= 2 /\ sorted[1].endpoint = sorted[2].endpoint
         THEN GroupKeys(Tail(sorted))
         ELSE <<sorted[1].endpoint>> \o GroupKeys(Tail(sorted))

\* group_by_endpoint, lines 19-21: the group keys in the order they come.
GroupByEndpoint(recs) == GroupKeys(SortedByEndpoint(recs))

\* A _prepare_get that gives the endpoints last to first.
PrepareGetReversed(items) ==
    [i \in 1..Len(items) |->
        LET it == items[Len(items) + 1 - i]
        IN  IF it.bare THEN it.str ELSE it.endpoint]

\* _prepare_get, lines 126-129
PrepareGet(items) ==
    [i \in 1..Len(items) |->
        IF items[i].bare THEN items[i].str ELSE items[i].endpoint]

\* _prepare_post, lines 131-141: the data of each record, in input order (the
\* endpoint, stripped of the namespace, stays in the copy of the record).
PreparePost(ns, recs) == [i \in 1..Len(recs) |-> [data |-> recs[i].data]]

\* A _prepare_put that prefixes every endpoint, qualified or not.
PreparePutAlwaysPrefixed(ns, recs) ==
    [i \in 1..Len(recs) |->
        [endpoint |-> <<NsStr(ns)>> \o recs[i].endpoint,
         record_id |-> recs[i].record_id,
         data |-> recs[i].data]]

\* _prepare_put, lines 143-153: each record whole, its endpoint prefixed with
\* the namespace unless it begins with it.
PreparePut(ns, recs) ==
    [i \in 1..Len(recs) |->
        [endpoint |-> IF Match(ns, recs[i].endpoint) THEN recs[i].endpoint
                      ELSE <<NsStr(ns)>> \o recs[i].endpoint,
         record_id |-> recs[i].record_id,
         data |-> recs[i].data]]

\* A _prepare_delete that takes the record id of every item, string or not.
PrepareDeleteRecordsOnly(items) ==
    [i \in 1..Len(items) |-> items[i].record_id]

\* _prepare_delete, lines 155-160
PrepareDelete(items) ==
    [i \in 1..Len(items) |->
        IF items[i].bare THEN items[i].str ELSE items[i].record_id]

\* urls.domain_endpoint and urls.domain_data: the path under the domain.
DomainEndpoint(ns, endpoint) == <<"api", "v2.6", "data", NsStr(ns)>> \o endpoint
DomainData == <<"api", "v2.6", "data">>
TokenPath == <<"users", "access_token">>

Request(method, path, body) == [method |-> method, path |-> path, body |-> body]

\* The requests an operation sends, in order, once its preconditions hold.
Requests(op, ns, items) ==
    CASE op = "get" ->
           [i \in 1..Len(items) |->
              Request("GET", DomainEndpoint(ns, PrepareGet(items)[i]), <<>>)]
      [] op = "post" ->
           LET keys == GroupByEndpoint(items)
           IN  [i \in 1..Len(keys) |->
                  Request("POST", DomainEndpoint(ns, keys[i]), PreparePost(ns, items))]
      [] op = "put" -> <<Request("PUT", DomainData, PreparePut(ns, items))>>
      [] op = "delete" -> <<Request("DELETE", DomainData, PrepareDelete(items))>>

\* The precondition of an operation: the namespace decorator, then the
\* preparation of the whole batch, both before the first request.
Precondition(op, ns, items) ==
    /\ op \in {"get", "post"} => RequiresNamespace(ns)
    /\ op \in {"get", "post", "put"} => RequireEndpoint(items)
    /\ op = "delete" => RequireRecordId(items)

Arguments(op) ==
    CASE op = "get" ->
           SeqsUpTo({r \in HatRecords : r.record_id = NoPath /\ r.data = "a"}
                        \cup BareStrings(Endpoints), MaxRecs)
      [] op = "delete" -> SeqsUpTo(HatRecords \cup BareStrings(RecordIds), MaxRecs)
      [] OTHER -> SeqsUpTo(HatRecords, MaxRecs)

ErrorOf(op) == CASE op = "get" -> "GetError" [] op = "post" -> "PostError"
                 [] op = "put" -> "PutError" [] op = "delete" -> "DeleteError"

\* get, post, put, delete up to the first request (lines 80-111).
ClientCall(op, items) ==
    /\ cop = NoneStr
    /\ cop' = op
    /\ cargs' = items
    /\ csent' = <<>>
    /\ cgot' = <<>>
    /\ crecv' = <<>>
    /\ IF ~Precondition(op, cns, items)
       THEN cqueue' = <<>> /\ cout' = "ValueError"
       ELSE /\ cqueue' = Requests(op, cns, items)
            /\ cout' = IF cqueue' = <<>> THEN "ok" ELSE "none"
    /\ UNCHANGED <<cns, cdomain>>
    /\ CliOnly

\* What the server answers a request with when it succeeds: the records it
\* stored or holds, as envelopes.
Stored(ns, path, item) ==
    [endpoint |-> SubSeq(path, 4, Len(path)), record_id |-> <<"r1">>,
     data |-> item.data]

\* What the server can hold under an endpoint: each payload once at most, in
\* any order.
HeldSeqs ==
    {ds \in SeqsUpTo(Payloads, Cardinality(Payloads)) :
        \A i, j \in 1..Len(ds) : i # j => ds[i] # ds[j]}

Responses(ns, req) ==
    CASE req.method = "GET" ->
           {[i \in 1..Len(ds) |-> Stored(ns, req.path, [data |-> ds[i]])] :
               ds \in HeldSeqs}
      [] req.method = "POST" ->
           {[i \in 1..Len(req.body) |-> Stored(ns, req.path, req.body[i])]}
      [] req.method = "PUT" ->
           {[i \in 1..Len(req.body) |->
               [endpoint |-> req.body[i].endpoint, record_id |-> req.body[i].record_id,
                data |-> req.body[i].data]]}
      [] req.method = "DELETE" -> {<<>>}

\* get_records, lines 24-30: the records of a response, in its order.
GetRecords(body) == body

\* An operation that notes the error of a failed request and goes on to the
\* requests that remain.
ClientRequestCarryOn(ok, body) ==
    /\ cout \in {"none", ErrorOf(cop)}
    /\ cqueue # <<>>
    /\ body \in Responses(cns, Head(cqueue))
    /\ csent' = csent \o (IF cdomain THEN <<>> ELSE <<Request("GET", TokenPath, <<>>)>>)
                      \o <<Head(cqueue)>>
    /\ cdomain' = TRUE
    /\ cqueue' = Tail(cqueue)
    /\ IF ~ok
       THEN /\ cout' = ErrorOf(cop)
            /\ cgot' = cgot
            /\ crecv' = crecv
       ELSE /\ cgot' = cgot \o GetRecords(body)
            /\ crecv' = Append(crecv, body)
            /\ cout' = IF cout # "none" THEN cout
                       ELSE IF cqueue' = <<>> THEN "ok" ELSE "none"
    /\ UNCHANGED <<cns, cop, cargs>>
    /\ CliOnly

\* The next request of the operation (_endpoint_request and _data_request,
\* lines 113-123; the token's domain is fetched when first needed), and what
\* the operation does with the response.
ClientRequest(ok, body) ==
    /\ cout = "none"
    /\ cqueue # <<>>
    /\ body \in Responses(cns, Head(cqueue))
    /\ csent' = csent \o (IF cdomain THEN <<>> ELSE <<Request("GET", TokenPath, <<>>)>>)
                      \o <<Head(cqueue)>>
    /\ cdomain' = TRUE
    /\ IF ~ok
       THEN /\ cout' = ErrorOf(cop)
            /\ cqueue' = <<>>
            /\ cgot' = cgot
            /\ crecv' = crecv
       ELSE /\ cqueue' = Tail(cqueue)
            /\ cgot' = IF cop = "delete" THEN cgot ELSE cgot \o GetRecords(body)
            /\ crecv' = Append(crecv, body)
            /\ cout' = IF cqueue' = <<>> THEN "ok" ELSE "none"
    /\ UNCHANGED <<cns, cop, cargs>>
    /\ CliOnly

\* The client as constructed (lines 60-70), with or without a namespace, on
\* a token that has or has not fetched its domain yet; a run is one call.
CliInit ==
    /\ cns \in {Namespace, NoneStr}
    /\ cdomain \in BOOLEAN
    /\ cop = NoneStr
    /\ cargs = <<>>
    /\ cqueue = <<>>
    /\ csent = <<>>
    /\ cgot = <<>>
    /\ crecv = <<>>
    /\ cout = "none"

CliIdle ==
    /\ cns = Namespace
    /\ cdomain = FALSE
    /\ cop = NoneStr
    /\ cargs = <<>>
    /\ cqueue = <<>>
    /\ csent = <<>>
    /\ cgot = <<>>
    /\ crecv = <<>>
    /\ cout = "none"

CliNext ==
    \/ /\ cop = NoneStr
       /\ \E op \in {"get", "post", "put", "delete"} :
             \E items \in Arguments(op) : ClientCall(op, items)
    \/ \E ok \in BOOLEAN :
          /\ cqueue # <<>>
          /\ \E body \in Responses(cns, Head(cqueue)) : ClientRequest(ok, body)

(***************************************************************************)
(* Part III: the record codec (hat/model.py)                               *)
(*                                                                         *)
(* A JSON value is tagged with its kind: an object ("obj": an envelope;    *)
(* "dict": a payload), an array ("arr") or a string ("str"). The strings   *)
(* of interest are JSON texts: Dumps(v) is the string that encodes v and   *)
(* Loads gives v back.                                                     *)
(***************************************************************************)
\* Models given to to_json at most.
MaxModels == 2
\* Model types given to parse at most.
MaxTypes == 2
\* Records in a response body at most.
MaxRecords == 3

ModelTypes == {"M1", "M2"}
NoType == NoneStr

Dumps(v) == [t |-> "str", json |-> v]
Loads(text) == text.json
JArr(items) == [t |-> "arr", items |-> items]
JDict(fields) == [t |-> "dict", fields |-> fields]
\* An envelope as JSON, under the names the aliases give its fields.
JEnvelope(endpoint, record_id, data) ==
    [t |-> "obj", endpoint |-> endpoint, recordId |-> record_id, data |-> data]
NoText == [t |-> NoneStr]

\* A typed model: its type, the two envelope fields, and its own fields.
Models == [mtype : ModelTypes, endpoint : {NoPath, EndpointE},
           record_id : RecordIds \cup {NoPath}, fields : Payloads]

\* _from_model, lines 103-109: the envelope of a model.
FromModel(m) == [endpoint |-> m.endpoint, record_id |-> m.record_id,
                 data |-> JDict(m.fields)]

\* HatRecord.json (BaseApiModel.json, lines 52-53): the text of an envelope.
RecordJson(r) == Dumps(JEnvelope(r.endpoint, r.record_id, r.data))

\* to_json, lines 93-101: each record dumped to a text (its data only, or
\* the envelope), and the list of these texts dumped.
ToJson(models, data_only) ==
    LET records == [i \in 1..Len(models) |-> FromModel(models[i])]
        texts == [i \in 1..Len(records) |->
                    IF data_only THEN Dumps(records[i].data)
                    ELSE RecordJson(records[i])]
    IN  Dumps(JArr(texts))

\* _to_model, lines 83-91: record["data"] of a record that is no object
\* raises TypeError; data that is a text is loaded; the model is built from
\* the data and gets the envelope's record id and endpoint.
ToModel(record, mtype) ==
    IF record.t # "obj" THEN [err |-> "TypeError", model |-> NoText]
    ELSE IF mtype = NoType THEN [err |-> "AttributeError", model |-> NoText]
    ELSE LET data == IF record.data.t = "str" THEN Loads(record.data)
                     ELSE record.data
         IN  [err |-> NoneStr,
              model |-> [mtype |-> mtype, endpoint |-> record.endpoint,
                         record_id |-> record.recordId, fields |-> data.fields]]

\* A binding that falls back to the first type given, not the last.
TypeAtFirst(mtypes, i) ==
    IF i <= Len(mtypes) THEN mtypes[i]
    ELSE IF mtypes = <<>> THEN NoType ELSE mtypes[1]

\* next(mtypes, mtype), line 79: the type of record i, the last one given
\* when there are fewer types than records.
TypeAt(mtypes, i) ==
    IF i <= Len(mtypes) THEN mtypes[i]
    ELSE IF mtypes = <<>> THEN NoType ELSE mtypes[Len(mtypes)]

\* parse, lines 70-81
Parse(text, mtypes) ==
    LET loaded == Loads(text)
        records == IF loaded.t = "arr" THEN loaded.items ELSE <<loaded>>
        each == [i \in 1..Len(records) |-> ToModel(records[i], TypeAt(mtypes, i))]
        bad == {i \in 1..Len(records) : each[i].err # NoneStr}
    IN  IF bad = {}
        THEN [err |-> NoneStr, models |-> [i \in 1..Len(records) |-> each[i].model]]
        ELSE [err |-> each[CHOOSE i \in bad : \A j \in bad : i <= j].err,
              models |-> <<>>]

\* The bodies a server sends: an array of envelopes, or one envelope alone,
\* the data of each an object or the text of one.
ServerRecords ==
    {JEnvelope(e, r, d) : e \in {EndpointNsE}, r \in RecordIds,
                          d \in {JDict(f) : f \in Payloads}
                                \cup {Dumps(JDict(f)) : f \in Payloads}}
ServerTexts ==
    {Dumps(JArr(rs)) : rs \in SeqsUpTo(ServerRecords, MaxRecords)}
    \cup {Dumps(r) : r \in ServerRecords}

\* A caller serializes models.
Serialize(models, data_only) ==
    /\ jphase = "start"
    /\ jphase' = "text"
    /\ jmodels' = models
    /\ jtext' = ToJson(models, data_only)
    /\ UNCHANGED <<jtypes, jout, jerr>>
    /\ CodOnly

\* A response body arrives.
Receive(text) ==
    /\ jphase = "start"
    /\ jphase' = "text"
    /\ jtext' = text
    /\ UNCHANGED <<jmodels, jtypes, jout, jerr>>
    /\ CodOnly

\* A caller parses the text at hand.
ParseText(mtypes) ==
    /\ jphase = "text"
    /\ jphase' = "parsed"
    /\ jtypes' = mtypes
    /\ jout' = Parse(jtext, mtypes).models
    /\ jerr' = Parse(jtext, mtypes).err
    /\ UNCHANGED <<jmodels, jtext>>
    /\ CodOnly

CodInit ==
    /\ jphase = "start"
    /\ jmodels = <<>>
    /\ jtext = NoText
    /\ jtypes = <<>>
    /\ jout = <<>>
    /\ jerr = NoneStr

CodNext ==
    \/ /\ jphase = "start"
       /\ \E models \in SeqsUpTo(Models, MaxModels), data_only \in BOOLEAN :
             Serialize(models, data_only)
    \/ /\ jphase = "start"
       /\ \E text \in ServerTexts : Receive(text)
    \/ \E mtypes \in SeqsUpTo(ModelTypes, MaxTypes) : ParseText(mtypes)

(***************************************************************************)
(* Part IV: the save fallback (AsyncActiveHatModel._save)                  *)
(***************************************************************************)
\* Models a put or a post returns at most.
MaxSaved == 2

SavedModels == {"m1", "m2", "m3"}
SaveErrors == {"PutError", "PostError"}
NoOutcome == [kind |-> "none", models |-> <<>>, err |-> NoneStr]
Returned(models) == [kind |-> "ok", models |-> models, err |-> NoneStr]
Raised(e) == [kind |-> "err", models |-> <<>>, err |-> e]
NoSaveArgs == [model |-> NoneStr, has_id |-> FALSE]

\* The fallback of lines 406-408, taken when post stands for every error.
FallsBackAlways(e, has_id) == e = "PutError"

\* lines 406-407: the fallback to post is for a PutError of a model with a
\* record id.
FallsBack(e, has_id) == e = "PutError" /\ has_id

\* line 411: saved[0] (IndexError on an empty list)
FirstOf(saved) == IF saved = <<>> THEN Raised("IndexError")
                  ELSE Returned(<<saved[1]>>)

\* _save, line 405: await try_first(self)
SaveCall(model, has_id) ==
    /\ spc = "idle"
    /\ spc' = "first"
    /\ sargs' = [model |-> model, has_id |-> has_id]
    /\ UNCHANGED <<sfirst, spost, sposted, sres>>
    /\ SavOnly

\* line 405 and line 411: try_first returns
FirstReturns(saved) ==
    /\ spc = "first"
    /\ sfirst' = Returned(saved)
    /\ sres' = FirstOf(saved)
    /\ spc' = "done"
    /\ UNCHANGED <<sargs, spost, sposted>>
    /\ SavOnly

\* lines 406-410: try_first raises
FirstRaises(e) ==
    /\ spc = "first"
    /\ sfirst' = Raised(e)
    /\ IF FallsBack(e, sargs.has_id)
       THEN /\ spc' = "post"
            /\ sposted' = Append(sposted, sargs.model)
            /\ UNCHANGED sres
       ELSE /\ spc' = "done"
            /\ sres' = Raised(e)
            /\ UNCHANGED sposted
    /\ UNCHANGED <<sargs, spost>>
    /\ SavOnly

\* line 408 and line 411: the fallback post returns
PostReturns(saved) ==
    /\ spc = "post"
    /\ spost' = Returned(saved)
    /\ sres' = FirstOf(saved)
    /\ spc' = "done"
    /\ UNCHANGED <<sargs, sfirst, sposted>>
    /\ SavOnly

\* line 408: the fallback post raises, inside the except clause
PostRaises(e) ==
    /\ spc = "post"
    /\ spost' = Raised(e)
    /\ sres' = Raised(e)
    /\ spc' = "done"
    /\ UNCHANGED <<sargs, sfirst, sposted>>
    /\ SavOnly

SavInit ==
    /\ spc = "idle"
    /\ sargs = NoSaveArgs
    /\ sfirst = NoOutcome
    /\ spost = NoOutcome
    /\ sposted = <<>>
    /\ sres = NoOutcome

SavNext ==
    \/ \E m \in SavedModels, has_id \in BOOLEAN : SaveCall(m, has_id)
    \/ \E saved \in SeqsUpTo(SavedModels, MaxSaved) : FirstReturns(saved)
    \/ \E e \in SaveErrors : FirstRaises(e)
    \/ \E saved \in SeqsUpTo(SavedModels, MaxSaved) : PostReturns(saved)
    \/ \E e \in SaveErrors : PostRaises(e)

(***************************************************************************)
(* Part V: the cooperative post (AsyncHatClient.post, _gather_posted)      *)
(*                                                                         *)
(* BaseHatClient.post makes one _endpoint_request coroutine per endpoint   *)
(* group and gives them to _gather_posted; asyncio.gather runs them as     *)
(* tasks and returns their results in the order it was given them.         *)
(***************************************************************************)
\* Records in one response at most.
MaxGot == 2

\* The group keys a call can have: the endpoints of its models, sorted.
GroupSeqs ==
    {SelectSeq(EndpointOrder, LAMBDA e : e \in S) : S \in (SUBSET Endpoints) \ {{}}}

NoTask == [state |-> "ready", records |-> <<>>]

RECURSIVE Flatten(_)
\* BaseHatClient._gather_posted: the lists of records chained into one.
Flatten(lists) ==
    IF lists = <<>> THEN <<>> ELSE Head(lists) \o Flatten(Tail(lists))

\* A gather that gives the results in the order the responses completed.
GatherPostedAsCompleted(tasks, order) ==
    Flatten([k \in 1..Len(order) |-> tasks[order[k]].records])

\* _gather_posted, lines 355-356: asyncio.gather gives the results in the
\* order of the awaitables, whatever order they completed in.
GatherPosted(tasks, order) ==
    Flatten([i \in 1..Len(tasks) |-> tasks[i].records])

InFlight(tasks) == Cardinality({i \in 1..Len(tasks) : tasks[i].state = "flight"})

\* post, line 353, up to the gather: one coroutine per group, all handed to
\* asyncio.gather at once.
GatherCall(keys) ==
    /\ gphase = "idle"
    /\ gphase' = "gathering"
    /\ gkeys' = keys
    /\ gtasks' = [i \in 1..Len(keys) |-> NoTask]
    /\ gresp' = [i \in 1..Len(keys) |-> <<>>]
    /\ UNCHANGED <<gorder, gpeak, gout>>
    /\ GatOnly

\* The task of group i runs up to its request: _endpoint_request, lines
\* 364-368, and request, lines 191-195.
TaskSend(i) ==
    /\ gphase # "idle"
    /\ i \in 1..Len(gtasks)
    /\ gtasks[i].state = "ready"
    /\ gtasks' = [gtasks EXCEPT ![i].state = "flight"]
    /\ gpeak' = IF InFlight(gtasks') > gpeak THEN InFlight(gtasks') ELSE gpeak
    /\ UNCHANGED <<gphase, gkeys, gresp, gorder, gout>>
    /\ GatOnly

\* The response of group i arrives and its task ends: request, lines
\* 196-205, on_success, lines 124-125.
TaskRespond(i, ok, records) ==
    /\ gphase # "idle"
    /\ i \in 1..Len(gtasks)
    /\ gtasks[i].state = "flight"
    /\ gtasks' = [gtasks EXCEPT ![i] =
                    IF ok THEN [state |-> "done", records |-> records]
                    ELSE [state |-> "failed", records |-> <<>>]]
    /\ gresp' = [gresp EXCEPT ![i] = IF ok THEN records ELSE @]
    /\ gorder' = Append(gorder, i)
    /\ UNCHANGED <<gphase, gkeys, gpeak, gout>>
    /\ GatOnly

\* _gather_posted, line 356: every task is done, the gather returns.
GatherReturn ==
    /\ gphase = "gathering"
    /\ \A i \in 1..Len(gtasks) : gtasks[i].state = "done"
    /\ gphase' = "returned"
    /\ gout' = GatherPosted(gtasks, gorder)
    /\ UNCHANGED <<gkeys, gtasks, gresp, gorder, gpeak>>
    /\ GatOnly

\* line 356: a task raised, the gather raises (the other tasks go on).
GatherRaise ==
    /\ gphase = "gathering"
    /\ \E i \in 1..Len(gtasks) : gtasks[i].state = "failed"
    /\ gphase' = "raised"
    /\ UNCHANGED <<gkeys, gtasks, gresp, gorder, gpeak, gout>>
    /\ GatOnly

GatInit ==
    /\ gphase = "idle"
    /\ gkeys = <<>>
    /\ gtasks = <<>>
    /\ gresp = <<>>
    /\ gorder = <<>>
    /\ gpeak = 0
    /\ gout = <<>>

GatNext ==
    \/ \E keys \in GroupSeqs : GatherCall(keys)
    \/ \E i \in 1..Len(gtasks) : TaskSend(i)
    \/ \E i \in 1..Len(gtasks), ok \in BOOLEAN :
          \E records \in SeqsUpTo(Payloads, MaxGot) : TaskRespond(i, ok, records)
    \/ GatherReturn
    \/ GatherRaise

SoloInit == TokInit /\ CliIdle /\ CodInit /\ SavInit /\ GatInit
RacingInit == RaceInit /\ CliIdle /\ CodInit /\ SavInit /\ GatInit
ClientInit == CliInit /\ TokInit /\ CodInit /\ SavInit /\ GatInit
CodecInit == CodInit /\ TokInit /\ CliIdle /\ SavInit /\ GatInit
SaveInit == SavInit /\ TokInit /\ CliIdle /\ CodInit /\ GatInit
GatherInit == GatInit /\ TokInit /\ CliIdle /\ CodInit /\ SavInit

\* One caller using the tokens; two callers racing on the owner token; one
\* call of the client; the codec; one save.
SpecSolo == SoloInit /\ [][SoloNext]_vars
SpecRace == RacingInit /\ [][RaceNext]_vars
SpecClient == ClientInit /\ [][CliNext]_vars
SpecCodec == CodecInit /\ [][CodNext]_vars
SpecSave == SaveInit /\ [][SavNext]_vars
SpecGather == GatherInit /\ [][GatNext]_vars

----------------------------------------------------------------------------
\* Claims about the token state machine.

Done(c) == stack[c] = <<>> /\ res[c].kind # "none"
Fields(t) == [value |-> value[t], decoded |-> decoded[t], expires |-> expires[t]]
Before(c) == [value |-> pre[c].value, decoded |-> pre[c].decoded,
              expires |-> pre[c].expires]

\* C1: when value() fetches a new raw token and the verified decode of that
\* token fails, the token's raw token, claims and expiration are what they
\* were before the call.
C1_FailedDecodeLeavesState ==
    \A c \in Callers :
        (/\ Done(c)
         /\ solo[c]
         /\ call[c].op = "value"
         /\ fetched[c] # NoTok
         /\ res[c].err = "DecodeError"
         /\ errTok[c] = call[c].tok)
        => Fields(call[c].tok) = Before(c)

\* C2: a value() call on a token whose stored expiration has passed sends
\* one GET to the token URL and no second one (the decode inside set_value
\* does not fetch again), ends without exhausting the stack, and when the
\* fetched token verifies leaves the token holding it with an expiration in
\* the future.
C2_ExpiredValueFetchesOnce ==
    \A c \in Callers :
        (solo[c] /\ call[c].op = "value" /\ pre[c].expired)
        => /\ gets[c] <= 1
           /\ Done(c) => /\ gets[c] = 1
                         /\ res[c].err # "RecursionError"
                         /\ res[c].kind = "ok" =>
                              /\ value[call[c].tok] = fetched[c]
                              /\ res[c].ret = RTok(fetched[c])
                              /\ decoded[call[c].tok] # NoClaims
                              /\ expires[call[c].tok] > now

\* Both callers called value() on a token that was unset or expired.
Racing == \A c \in Callers :
              /\ call[c].op = "value"
              /\ ~solo[c]
              /\ pre[c].value = NoTok \/ pre[c].expired

\* C5: two callers that invoke value() concurrently on an unset or expired
\* token each send their own GET to the token URL when both pass the guard
\* before either stores a token, and each caller returns a raw token unless
\* the server failed a request or a fetched token did not verify.
C5_RacingCallersFetchAndReturn ==
    Racing =>
      \A c \in Callers :
          Done(c) =>
            /\ gets[c] >= 1
            /\ \/ res[c].kind = "ok" /\ res[c].ret.tok # NoTok
               \/ res[c].err \in {"ResponseError", "DecodeError"}

\* A token GET is in flight for the headers of a public-key request.
PkHeaderFetch(c) ==
    \E i \in 1..Len(stack[c]) :
        /\ stack[c][i].fn = "request"
        /\ stack[c][i].url.kind = "pk"
        /\ stack[c][i].pc = 1
        /\ net[c].url.kind = "token"

\* C10: the GET that pk() sends to the public-key URL carries neither
\* credential headers nor a token header, and no token is fetched to compute
\* its headers.
C10_PkRequestUnauthenticated ==
    \A c \in Callers :
        /\ net[c].url.kind = "pk" => net[c].hdr = NoHdr
        /\ ~PkHeaderFetch(c)

----------------------------------------------------------------------------
\* Claims about the request orchestrator.

Sent(method) == SelectSeq(csent, LAMBDA r : r.method = method)
Occurrences(x, seq) == Cardinality({i \in 1..Len(seq) : seq[i] = x})

\* C3: post sends one POST per distinct endpoint of its records, and the
\* body of each POST is the payloads of the records of that endpoint, and of
\* no other, in input order.
C3_PostBodyIsItsGroup ==
    (cop = "post" /\ cout = "ok") =>
        LET posts == Sent("POST") IN
        /\ Len(posts) = Cardinality({cargs[i].endpoint : i \in 1..Len(cargs)})
        /\ \A k \in 1..Len(posts) :
              LET group == SelectSeq(cargs,
                             LAMBDA r : DomainEndpoint(cns, r.endpoint) = posts[k].path)
              IN  posts[k].body = [i \in 1..Len(group) |-> [data |-> group[i].data]]

\* C4: every POST of post under namespace ns goes to .../data/ns/e, e the
\* endpoint without the namespace: the namespace is in the path once.
C4_NamespaceOnceInPostPath ==
    \A k \in 1..Len(csent) :
        (csent[k].method = "POST" /\ cns = Namespace)
        => /\ Occurrences(Namespace, csent[k].path) = 1
           /\ \E i \in 1..Len(cargs) :
                 csent[k].path = <<"api", "v2.6", "data", Namespace,
                                   cargs[i].endpoint[Len(cargs[i].endpoint)]>>

\* The call at hand violates the precondition of its operation.
NullEndpointAt(i) == ~cargs[i].bare /\ cargs[i].endpoint = NoPath
NullRecordIdAt(i) == ~cargs[i].bare /\ cargs[i].record_id = NoPath
C7Violated ==
    \/ cop \in {"get", "post"} /\ cns = NoneStr
    \/ cop \in {"post", "put"} /\ \E i \in 1..Len(cargs) : NullEndpointAt(i)
    \/ cop = "delete" /\ \E i \in 1..Len(cargs) : NullRecordIdAt(i)

\* C7: an operation whose precondition is violated (get or post without a
\* namespace, post or put with a record whose endpoint is null, delete with a
\* record whose record id is null, at any place of the batch) raises with no
\* request sent: no token fetch and no data request.
C7_PreconditionBeforeAnyRequest ==
    C7Violated => csent = <<>> /\ cqueue = <<>> /\ cout = "ValueError"

C7_Witness ==
    /\ cop = "put"
    /\ Len(cargs) = 2
    /\ ~NullEndpointAt(1) /\ NullEndpointAt(2)
    /\ cout = "ValueError"
    /\ ~cdomain

\* An endpoint qualified by the namespace; qualified once, from the one given.
Qualified(e) == Len(e) >= 2 /\ e[1] = Namespace
QualifiedOnce(e, given) ==
    /\ Qualified(e)
    /\ ~Qualified(Tail(e))
    /\ Tail(e) = IF Qualified(given) THEN Tail(given) ELSE given

\* C8: under namespace ns, no payload that post sends holds a
\* namespace-qualified endpoint, and every endpoint in the payload that put
\* sends is qualified exactly once: ns/x for a record given as ns/x and for
\* one given as x.
C8_PostBareAndPutQualified ==
    cns = Namespace =>
        \A k \in 1..Len(csent) :
            /\ csent[k].method = "POST" =>
                   \A i \in 1..Len(csent[k].body) :
                       /\ "endpoint" \in DOMAIN csent[k].body[i] =>
                              ~Qualified(csent[k].body[i].endpoint)
                       /\ csent[k].body[i].data = cargs[i].data
            /\ csent[k].method = "PUT" =>
                   /\ Len(csent[k].body) = Len(cargs)
                   /\ \A i \in 1..Len(cargs) :
                          QualifiedOnce(csent[k].body[i].endpoint, cargs[i].endpoint)

C8_Witness ==
    /\ cns = Namespace
    /\ cop = "put"
    /\ cout = "ok"
    /\ Len(cargs) = 2
    /\ cargs[1].endpoint = EndpointNsE
    /\ cargs[2].endpoint = EndpointE
    /\ Len(Sent("PUT")) = 1

----------------------------------------------------------------------------
\* Claims about the codec and about save.

\* C9: for every envelope record r, to_json of the model of r (full
\* envelopes) and then parse of the result give exactly one model, with r's
\* endpoint and record id and with r's payload as its fields.
C9_ToJsonParseRoundTrip ==
    (/\ jphase = "parsed"
     /\ Len(jmodels) = 1
     /\ jtext = ToJson(jmodels, FALSE)
     /\ jtypes # <<>>)
    => /\ jerr = NoneStr
       /\ Len(jout) = 1
       /\ jout[1].endpoint = jmodels[1].endpoint
       /\ jout[1].record_id = jmodels[1].record_id
       /\ jout[1].fields = jmodels[1].fields

\* C6: when try_first raises PutError and the model has a record id, post
\* is called exactly once, with the model, and the first model it returns
\* is the result; an error post raises is the outcome, with no further
\* attempt; without a record id the PutError is the outcome and post is not
\* called.
C6_SaveFallsBackToPostOnce ==
    /\ Len(sposted) <= 1
    /\ (spc = "done" /\ sfirst = Raised("PutError")) =>
          IF sargs.has_id
          THEN /\ sposted = <<sargs.model>>
               /\ spost.kind = "err" => sres = spost
               /\ (spost.kind = "ok" /\ spost.models # <<>>) =>
                     sres = Returned(<<spost.models[1]>>)
          ELSE /\ sposted = <<>>
               /\ sres = Raised("PutError")
    /\ (spc = "post") => sfirst = Raised("PutError") /\ sargs.has_id

C6_Witness ==
    /\ spc = "done"
    /\ sargs.has_id
    /\ sfirst = Raised("PutError")
    /\ Len(spost.models) = 2
    /\ spost.models[1] # spost.models[2]
    /\ sres = Returned(<<spost.models[1]>>)

----------------------------------------------------------------------------
\* Further claims about the token state machine.

\* The call of c is value() on a token that, when the call began, was set
\* and not expired.
FreshAtCall(c) ==
    /\ solo[c]
    /\ call[c].op = "value"
    /\ pre[c].value # NoTok
    /\ ~pre[c].expired

\* The call of c is value() on a token that, when the call began, was unset
\* or expired.
StaleAtCall(c) ==
    /\ solo[c]
    /\ call[c].op = "value"
    /\ pre[c].value = NoTok \/ pre[c].expired

\* C11: value() sends a GET to the token URL if and only if the raw token is
\* unset or expired() holds when it is called. On a token that is set and
\* not expired it sends no request at all, returns the stored raw token and
\* leaves the token's state as it was. On an unset or expired token the
\* call does not end without that GET, unless it failed on the way to it:
\* an application token's URL needs the owner token's domain, and getting
\* that can fail.
C11_ValueFetchesIffUnsetOrExpired ==
    \A c \in Callers :
        /\ FreshAtCall(c) =>
              /\ gets[c] = 0
              /\ net[c] = NoReq
              /\ Fields(call[c].tok) = Before(c)
              /\ Done(c) => res[c] = Ok(RTok(pre[c].value))
        /\ (StaleAtCall(c) /\ Done(c)) =>
              \/ gets[c] >= 1
              \/ res[c].kind = "err" /\ errTok[c] # call[c].tok

C11_Witness ==
    /\ FreshAtCall(SoloCaller)
    /\ Done(SoloCaller)
    /\ res[SoloCaller] = Ok(RTok(pre[SoloCaller].value))
    /\ gets[SoloCaller] = 0

\* The call of c is domain() on the application token.
AppDomainCall(c) == solo[c] /\ call[c] = [op |-> "domain", tok |-> "app", verify |-> FALSE]

\* C12: domain() of an application token gives the owner token's domain,
\* and the call never fetches or decodes the application token: no
\* coroutine of the application token other than domain() runs, no request
\* goes to its token URL, and its raw token, claims, expiration and fetch
\* count are what they were when the call began.
C12_AppDomainDelegatesToOwner ==
    \A c \in Callers :
        AppDomainCall(c) =>
            /\ Fields("app") = Before(c)
            /\ gets[c] = 0
            /\ \A i \in 1..Len(stack[c]) :
                  stack[c][i].tok = "app" => stack[c][i].fn = "domain"
            /\ ~(net[c].url.kind = "token" /\ net[c].url.sub = "app")
            /\ domain["app"] = NoDomain
            /\ (Done(c) /\ res[c].kind = "ok") =>
                  /\ domain["owner"] # NoDomain
                  /\ res[c].ret = RStr(domain["owner"])

C12_Witness ==
    /\ AppDomainCall(SoloCaller)
    /\ Done(SoloCaller)
    /\ res[SoloCaller] = Ok(RStr(WithScheme(Issuer)))
    /\ value["owner"] # NoTok
    /\ value["app"] = NoTok

\* No call is in progress.
Quiescent == \A c \in Callers : stack[c] = <<>>

\* The claims and the expiration that belong to a raw token.
ClaimsOf(raw) == [iss |-> raw.iss, exp |-> raw.exp, sub |-> raw.sub]

\* C13: after any sequence of value, decode, domain and pk calls,
\* successful or failing, the claims and the expiration of a token are both
\* set or both unset, and when they are set the raw token is set and they
\* are the claims and the expiration of that raw token.
C13_ClaimsAndExpirationFromRawToken ==
    Quiescent =>
        \A t \in Tokens :
            /\ decoded[t] = NoClaims <=> expires[t] = NoTime
            /\ decoded[t] # NoClaims =>
                  /\ value[t] # NoTok
                  /\ decoded[t] = ClaimsOf(value[t])
                  /\ expires[t] = value[t].exp

----------------------------------------------------------------------------
\* Claims about the cooperative post.

\* C14: post hands the POSTs of all its endpoint groups to one gather, so
\* that each can be sent while the others are in flight, and the list it
\* returns is the records of the groups' responses chained in group order,
\* whatever the order the responses completed in.
C14_GatherKeepsGroupOrder ==
    /\ gphase # "idle" => Len(gtasks) = Len(gkeys)
    /\ \A i \in 1..Len(gtasks) : gtasks[i].state = "ready" => ENABLED TaskSend(i)
    /\ gphase = "returned" =>
          /\ Len(gorder) = Len(gkeys)
          /\ gout = Flatten(gresp)

C14_Witness ==
    /\ gphase = "returned"
    /\ Len(gkeys) = 3
    /\ gpeak = 3
    /\ gorder = <<3, 1, 2>>
    /\ gresp = <<(<<"a">>), (<<"b", "a">>), (<<"b">>)>>
    /\ gout = <<"a", "b", "a", "b">>

----------------------------------------------------------------------------
\* Further claims about the codec.

\* The records of a JSON text: the items of an array, or the one value.
RecordsOf(text) ==
    IF Loads(text).t = "arr" THEN Loads(text).items ELSE <<Loads(text)>>

\* The payload of an envelope, whether it came as an object or as a text.
PayloadOf(record) ==
    IF record.data.t = "str" THEN Loads(record.data).fields ELSE record.data.fields

\* C15: parse of a text of n records with k >= 1 model types returns n
\* models in the order of the records, record i made into a model of type i
\* when there are that many types and of the last type otherwise, with the
\* record's endpoint, record id and payload; a text that is one object gives
\* one model.
C15_ParseBindsTypesInOrder ==
    (jphase = "parsed" /\ jtext \in ServerTexts /\ jtypes # <<>>) =>
        LET records == RecordsOf(jtext)
            k == Len(jtypes)
        IN  /\ jerr = NoneStr
            /\ Len(jout) = Len(records)
            /\ Loads(jtext).t = "obj" => Len(jout) = 1
            /\ \A i \in 1..Len(records) :
                  /\ jout[i].mtype = IF i <= k THEN jtypes[i] ELSE jtypes[k]
                  /\ jout[i].endpoint = records[i].endpoint
                  /\ jout[i].record_id = records[i].recordId
                  /\ jout[i].fields = PayloadOf(records[i])

C15_Witness ==
    /\ jphase = "parsed"
    /\ jtext \in ServerTexts
    /\ jtypes = <<"M1", "M2">>
    /\ Len(jout) = 3
    /\ jout[3].mtype = "M2"
    /\ jout[1].fields # jout[2].fields
    /\ jerr = NoneStr

----------------------------------------------------------------------------
\* Further claims about the request orchestrator.

\* The requests of the call, the token's own GET left out.
DataRequests == SelectSeq(csent, LAMBDA r : r.path # TokenPath)

\* C16: delete sends exactly one DELETE, to the data URL, and nothing else;
\* its records parameter lists, in input order, each string given and the
\* record id of each record given; on success delete returns nothing.
C16_DeleteIsOneRequestInInputOrder ==
    cop = "delete" =>
        /\ Len(DataRequests) <= 1
        /\ cout = "ok" =>
              /\ Len(DataRequests) = 1
              /\ DataRequests[1].method = "DELETE"
              /\ DataRequests[1].path = DomainData
              /\ Len(DataRequests[1].body) = Len(cargs)
              /\ \A i \in 1..Len(cargs) :
                    DataRequests[1].body[i] =
                        IF cargs[i].bare THEN cargs[i].str ELSE cargs[i].record_id
              /\ cgot = <<>>

C16_Witness ==
    /\ cop = "delete"
    /\ cout = "ok"
    /\ Len(cargs) = 2
    /\ cargs[1].bare /\ cargs[1].str = <<"r2">>
    /\ ~cargs[2].bare /\ cargs[2].record_id = <<"r1">>
    /\ Len(DataRequests) = 1
    /\ DataRequests[1].body = <<(<<"r2">>), (<<"r1">>)>>

\* C17: on a client constructed without a namespace, put does not fail for
\* the missing namespace, and the PUT it sends carries the endpoint of each
\* record exactly as the record has it: nothing is put before an endpoint
\* that is already qualified by a namespace.
C17_PutWithoutNamespaceKeepsEndpoints ==
    (cop = "put" /\ cns = NoneStr /\ RequireEndpoint(cargs)) =>
        /\ cout # "ValueError"
        /\ \A k \in 1..Len(csent) :
              csent[k].method = "PUT" =>
                  /\ Len(csent[k].body) = Len(cargs)
                  /\ \A i \in 1..Len(cargs) :
                        csent[k].body[i].endpoint = cargs[i].endpoint

\* The end of a path: its last n segments.
PathEnd(path, n) == SubSeq(path, Len(path) - n + 1, Len(path))

RECURSIVE Chained(_)
\* The records of a sequence of response bodies, one body after the other.
Chained(bodies) ==
    IF bodies = <<>> THEN <<>> ELSE Head(bodies) \o Chained(Tail(bodies))

\* C19: get sends exactly one GET for each endpoint it was given, in the
\* order given, and returns the records of the responses chained in that
\* order, the records of each response in the order the server gave them.
C19_GetOneRequestPerEndpointInOrder ==
    cop = "get" =>
        /\ Len(DataRequests) <= Len(cargs)
        /\ \A k \in 1..Len(DataRequests) :
              LET e == IF cargs[k].bare THEN cargs[k].str ELSE cargs[k].endpoint
              IN  /\ DataRequests[k].method = "GET"
                  /\ PathEnd(DataRequests[k].path, Len(e)) = e
        /\ cout = "ok" =>
              /\ Len(DataRequests) = Len(cargs)
              /\ Len(crecv) = Len(cargs)
              /\ cgot = Chained(crecv)

C19_Witness ==
    /\ cop = "get"
    /\ cout = "ok"
    /\ Len(cargs) = 2
    /\ cargs[1].bare /\ cargs[1].str = EndpointF
    /\ ~cargs[2].bare /\ cargs[2].endpoint = EndpointE
    /\ Len(crecv[1]) = 2 /\ crecv[1][1].data = "b" /\ crecv[1][2].data = "a"
    /\ Len(crecv[2]) = 1
    /\ Len(cgot) = 3

----------------------------------------------------------------------------
\* Claims about the memoized domain.

\* The call of c is domain() on the owner token, whose domain an earlier
\* call had stored.
MemoizedDomainCall(c) ==
    /\ solo[c]
    /\ call[c] = [op |-> "domain", tok |-> "owner", verify |-> FALSE]
    /\ pre[c].domain # NoDomain

\* C18: once a domain() on the owner token has succeeded, every later
\* domain() returns the stored value, sends no request and decodes nothing,
\* whether or not the raw token has expired or has been fetched again since.
C18_DomainMemoized ==
    \A c \in Callers :
        MemoizedDomainCall(c) =>
            /\ net[c] = NoReq
            /\ gets[c] = 0
            /\ \A i \in 1..Len(stack[c]) : stack[c][i].fn = "domain"
            /\ domain["owner"] = pre[c].domain
            /\ Fields("owner") = Before(c)
            /\ Done(c) => res[c] = Ok(RStr(pre[c].domain))

C18_Witness ==
    /\ MemoizedDomainCall(SoloCaller)
    /\ Done(SoloCaller)
    /\ pre[SoloCaller].expired
    /\ res[SoloCaller] = Ok(RStr(WithScheme(Issuer)))

----------------------------------------------------------------------------
\* Claims about racing callers.

\* Both callers called value() on the owner token and both calls are over.
RaceOver == \A c \in Callers : call[c].op = "value" /\ ~solo[c] /\ Done(c)

\* C20: when concurrent value() calls on one token have all completed, the
\* claims and the expiration the token holds are those of the raw token it
\* holds: never the raw token of one fetch with the claims or the expiration
\* of another.
C20_RaceLeavesClaimsOfStoredToken ==
    (RaceOver /\ decoded["owner"] # NoClaims) =>
        /\ value["owner"] # NoTok
        /\ decoded["owner"] = ClaimsOf(value["owner"])
        /\ expires["owner"] = value["owner"].exp

\* The race itself: both calls found the token unset, both fetched, both
\* returned a raw token, and the token holds the raw token of one fetch with
\* the claims and the expiration of the other.
C20_RaceWitness ==
    /\ RaceOver
    /\ \A c \in Callers : pre[c].value = NoTok /\ res[c].kind = "ok"
    /\ value["owner"] = fetched["c2"]
    /\ decoded["owner"] = ClaimsOf(fetched["c1"])
    /\ expires["owner"] = fetched["c1"].exp
    /\ fetched["c1"].exp < fetched["c2"].exp

----------------------------------------------------------------------------
\* Claims about a failing post.

\* The paths post sends its POSTs to, one per endpoint group, in group order.
GroupPaths ==
    [i \in 1..Len(GroupByEndpoint(cargs)) |->
        DomainEndpoint(cns, GroupByEndpoint(cargs)[i])]

\* C21: when the POST of one endpoint group fails, post raises the error to
\* its caller; the failed POST was sent once, the POSTs of the groups before
\* it were sent and answered, and no POST of a later group is sent, then or
\* afterwards.
C21_FailedPostStopsTheBatch ==
    cop = "post" =>
        LET posts == Sent("POST") IN
        /\ Len(posts) > Len(crecv) => cout = "PostError"
        /\ cout = "PostError" =>
              /\ cqueue = <<>>
              /\ Len(posts) = Len(crecv) + 1
              /\ Len(posts) <= Len(GroupPaths)
              /\ \A k \in 1..Len(posts) : posts[k].path = GroupPaths[k]

C21_Witness ==
    /\ cop = "post"
    /\ cout = "PostError"
    /\ Len(GroupPaths) = 2
    /\ Len(Sent("POST")) = 2
    /\ Len(crecv) = 1
    /\ cqueue = <<>>

\* The other case of C21: the first of two groups fails and the second is
\* never sent.
C21_FirstGroupFails ==
    /\ cop = "post"
    /\ cout = "PostError"
    /\ Len(GroupPaths) = 2
    /\ Len(Sent("POST")) = 1
    /\ crecv = <<>>

\* The GET of the application token is in flight for caller c; it leaves in
\* the step that makes this true.
AppTokenGet(c) ==
    /\ net[c] # NoReq
    /\ net[c].url.kind = "token"
    /\ net[c].url.sub = "app"

\* C22: every GET of the application token leaves with the token header set
\* to the owner token's raw value, which at that moment is stored (the owner
\* token is not unset) and has not reached its stored expiration: the owner
\* token was fetched before the application token is requested.
C22_AppTokenGetCarriesOwnerValue ==
    [][\A c \in Callers :
         (~AppTokenGet(c) /\ AppTokenGet(c)') =>
             /\ ~net'[c].hdr.cred
             /\ value'["owner"] # NoTok
             /\ net'[c].hdr.token = value'["owner"]
             /\ ~(Expired("owner"))']_vars
C22_Witness == AppTokenGet(SoloCaller) /\ call[SoloCaller].tok = "app" /\ net[SoloCaller].hdr.token = value["owner"] /\ value["owner"] # NoTok /\ expires["owner"] > now
C22_SecondFetchWitness == C22_Witness /\ ncalls = 2 /\ value["app"] # NoTok /\ Expired("app")

\* What one request() calls, in order, when the response is 2xx and when it
\* is not.
SuccessLog == <<"headers", "request", "on_response", "on_success">>
ErrorLog == <<"headers", "request", "on_error">>
Leaves(c) == net[c] = NoReq /\ net'[c] # NoReq
Answered(c) == net[c] # NoReq /\ net'[c] = NoReq

\* C23: a request leaves only after request() has called the auth's
\* headers(); a 2xx response makes request() call on_response once and then
\* on_success, whose result it returns, and only the on_response of a token
\* auth changes a token; any other response makes it call on_error alone: the
\* call ends with the response error and no token field changes.
C23_RequestCallsInOrder ==
    [][\A c \in Callers :
         /\ Leaves(c) =>
              /\ Top(c).fn = "request"
              /\ Top(c).log = <<"headers">> \/ Top(c).tok = "owner"
              /\ (Top(c).log)' = <<"headers", "request">>
         /\ Answered(c) =>
              /\ events'[c] \in {SuccessLog, ErrorLog}
              /\ events'[c] = SuccessLog =>
                   /\ ret'[c] \in Bodies(net[c])
                   /\ <<value, decoded, expires>>' # <<value, decoded, expires>>
                        => ~net[c].hdr.cred
              /\ events'[c] = ErrorLog =>
                   /\ res'[c] = Err("ResponseError")
                   /\ stack'[c] = <<>>
                   /\ UNCHANGED <<value, decoded, expires>>
         /\ ~Answered(c) => events'[c] = events[c]]_vars
C23_Witness == events[SoloCaller] = ErrorLog /\ res[SoloCaller] = Err("ResponseError") /\ value["owner"] # NoTok /\ call[SoloCaller].tok = "app"
C23_SuccessWitness == events[SoloCaller] = SuccessLog /\ call[SoloCaller].tok = "app" /\ value["owner"] = NoTok /\ value["app"] # NoTok

SoloReachesValidOwner == ValidOwner /\ now = 0 /\ stack[SoloCaller] = <<>>
====
